---- MODULE Spec2Model ----
(***************************************************************************)
(* ModularityPruning: the iterative resolution-parameter estimators, the   *)
(* multilayer consistency checker and the 2D CHAMP domain extractor.       *)
(*                                                                         *)
(* Numbers.  gamma is counted in units of 0.01 and omega in units of 0.05, *)
(* so that the default tolerances tol = gamma_tol = 1e-2 and               *)
(* omega_tol = 5e-2 are one unit each: a move of 0 is below the tolerance, *)
(* a move of 1 is exactly the tolerance, a move of 2 is above it.          *)
(* The coupling probability p is counted in whole units (p = 1 is 1.0).    *)
(***************************************************************************)
EXTENDS Integers, Sequences, FiniteSets

\* ---- bounds of the model ------------------------------------------------
MaxIter == 2
MaxGamma == 1
MaxOmega == 1
MaxV == 2
MaxLayer == 1
MaxIntraEdges == 2
MaxInterEdges == 1
MaxChampEdges == 3
MaxParts == 3
MaxGammaF == 3
MaxSamples == 3
MaxInterior == 51
MaxOmegaF == 2
MaxPoints == 198
MaxOmegaPoints == 2
MaxTupleLen == 3
MaxLabel == 3
MaxOptimalParts == 4
MaxRunGamma == 1

\* ---- values of the program ----------------------------------------------
\* Python's None, for last_gamma / last_omega / gamma before they hold a number
None == -1
\* tol=1e-2 of the monolayer estimator, in units of 0.01
tol == 1
\* gamma_tol=1e-2 of the multilayer estimator, in units of 0.01
gamma_tol == 1
\* omega_tol=5e-2 of the multilayer estimator, in units of 0.05
omega_tol == 1
\* the upper end 1.0 of the range of p
POne == 1
\* the default starting gamma=1.0, in units of 0.01
GammaStart == 100
\* the default starting omega=1.0, in units of 0.05
OmegaStart == 20

\* the values the estimates are drawn from: a window from the start upwards
GammaValues == GammaStart..(GammaStart + MaxGamma)
OmegaValues == OmegaStart..(OmegaStart + MaxOmega)
\* estimates of p: below the range, its two ends, above it
PValues == {0 - 1, 0, POne, POne + 1}
Methods == {"louvain", "2-spinglass", "leiden"}
Models == {"temporal", "multilevel", "multiplex"}

Abs(x) == IF x < 0 THEN 0 - x ELSE x

\* the partition object an optimizer call returns: which call produced it and
\* the resolution parameters that call was given
NoPart == [call |-> 0, gamma |-> None, omega |-> None]
Part(c, g, w) == [call |-> c, gamma |-> g, omega |-> w]

\* ---- outcomes -----------------------------------------------------------
NoOutcome == [kind |-> "running", type |-> "", msg |-> "", args |-> <<>>, msgs |-> <<>>,
              part |-> NoPart]
\* a return that presents the partition as the one found at the returned values
ReturnedAsOptimisedThere(g, w, pt) ==
    [kind |-> "returned", type |-> "", msg |-> "", args |-> <<g, w>>, msgs |-> <<>>,
     part |-> [pt EXCEPT !.gamma = g, !.omega = w]]
Returned(g, w, pt) == [kind |-> "returned", type |-> "", msg |-> "", args |-> <<g, w>>,
                       msgs |-> <<>>, part |-> pt]
Raised(t, m, a) == [kind |-> "raised", type |-> t, msg |-> m, args |-> a, msgs |-> <<>>,
                    part |-> NoPart]
Malformed(ms) == [kind |-> "raised", type |-> "ValueError", msg |-> "Input graph is malformed",
                  args |-> <<>>, msgs |-> ms, part |-> NoPart]

\* ---- graphs -------------------------------------------------------------
\* A graph is its vertex count, its edges (source, target) over vertices
\* 0..n-1, iterated in lexicographic order, and its directedness.  The graphs
\* passed to the estimators have no 'weight' edge attribute; every edge then
\* counts 1.0.
Pairs(n) == (0..(n - 1)) \X (0..(n - 1))
UPairs(n) == {e \in Pairs(n) : e[1] <= e[2]}
\* interlayer edges join two different vertices
DPairs(n) == {e \in Pairs(n) : e[1] # e[2]}
Graph(n, es, d) == [n |-> n, es |-> es, directed |-> d]
IntraGraphs ==
    UNION {{Graph(n, es, FALSE) :
                    es \in {E \in SUBSET UPairs(n) : Cardinality(E) <= MaxIntraEdges}} :
                n \in 1..MaxV}
InterGraphs ==
    UNION {{Graph(n, es, d) :
                es \in {E \in SUBSET DPairs(n) : Cardinality(E) <= MaxInterEdges},
                d \in BOOLEAN} :
           n \in 1..MaxV}
\* layer membership vectors: nonempty, vertices numbered layer by layer
RECURSIVE SeqsUpTo(_, _)
SeqsUpTo(S, k) ==
    IF k = 0 THEN {<<>>}
    ELSE LET shorter == SeqsUpTo(S, k - 1)
         IN  shorter \cup {Append(s, x) : s \in {t \in shorter : Len(t) = k - 1}, x \in S}
IsSorted(s) == \A i \in 1..(Len(s) - 1) : s[i] <= s[i + 1]
LayerVecs == {s \in SeqsUpTo(0..MaxLayer, MaxV) : s # <<>> /\ IsSorted(s)}

vcount(G) == G.n
ecount(G) == Cardinality(G.es)
is_directed(G) == G.directed
\* e comes before f when the edges are iterated
Before(e, f) == e[1] < f[1] \/ (e[1] = f[1] /\ e[2] < f[2])

\* layer_vec[v] for a 0-based vertex v; Python raises IndexError when v >= len
InVec(lv, v) == v < Len(lv)
At(lv, v) == lv[v + 1]

RECURSIVE SeqMax(_)
SeqMax(s) == IF Len(s) = 1 THEN s[1]
             ELSE LET m == SeqMax(Tail(s)) IN IF s[1] > m THEN s[1] ELSE m

\* in-degree of every vertex; an undirected graph counts every incident edge
\* end (a loop twice)
in_degrees(G) ==
    [v \in 1..G.n |->
        Cardinality({e \in G.es : e[2] = v - 1})
        + (IF G.directed THEN 0 ELSE Cardinality({e \in G.es : e[1] = v - 1}))]

\* ---- check_multilayer_graph_consistency -----------------------------------
messages ==
    << "Graph must have multiple layers",
       "Interlayer graph should be directed",
       "Inter-layer and Intra-layer graphs must be of the same size",
       "Layer membership vector must have length matching graph size",
       "All layers of graph must contain edges",
       "Intralayer graph should not contain edges across layers",
       "Interlayer temporal graph must contain (nodes per layer) * (number of layers - 1) edges",
       "Vertex count of a temporal graph should be a multiple of the number of layers",
       "Temporal networks must have the same number of nodes in every layer",
       "All layers of a multilevel graph must be consecutive and nonempty",
       "Multilevel networks should have at most one interlayer in-edge per node",
       "Multiplex networks must have the same number of nodes in every layer",
       "Multiplex interlayer networks must contain edges between all pairs of layers" >>
RuleIds == 1..Len(messages)

\* all(layer_vec[e.source] == layer_vec[e.target] for e in G_intralayer.es):
\* the generator stops at the first edge that is across layers (False) or that
\* indexes past the end of layer_vec (IndexError)
EdgeInVec(lv, e) == InVec(lv, e[1]) /\ InVec(lv, e[2])
EdgeAcross(lv, e) == EdgeInVec(lv, e) /\ At(lv, e[1]) # At(lv, e[2])
SameLayerRaises(G, lv) ==
    \E e \in G.es : ~EdgeInVec(lv, e) /\ \A f \in G.es : Before(f, e) => ~EdgeAcross(lv, f)
SameLayerAll(G, lv) == \A e \in G.es : ~EdgeAcross(lv, e)

\* a list of checks that holds every model's rules against every graph
checksOfEveryModel(Gi, Ge, lv, model, m_t, T, N, Nt) ==
    << T > 1,
       is_directed(Ge),
       vcount(Ge) = vcount(Gi),
       Len(lv) = vcount(Gi),
       \A l \in 1..Len(m_t) : m_t[l] > 0,
       SameLayerAll(Gi, lv),
       ecount(Ge) = N * (T - 1),
       vcount(Ge) % T = 0 /\ vcount(Gi) % T = 0,
       \A l \in 1..Len(Nt) : Nt[l] = N,
       \A l \in 1..Len(Nt) : Nt[l] > 0,
       \A v \in 1..vcount(Ge) : in_degrees(Ge)[v] <= 1,
       \A l \in 1..Len(Nt) : Nt[l] = N,
       ecount(Ge) = N * T * (T - 1) >>
\* the list `rules` (its checks), evaluated where SameLayerRaises is false
checks(Gi, Ge, lv, model, m_t, T, N, Nt) ==
    << T > 1,
       is_directed(Ge),
       vcount(Ge) = vcount(Gi),
       Len(lv) = vcount(Gi),
       \A l \in 1..Len(m_t) : m_t[l] > 0,
       SameLayerAll(Gi, lv),
       model # "temporal" \/ ecount(Ge) = N * (T - 1),
       model # "temporal" \/ (vcount(Ge) % T = 0 /\ vcount(Gi) % T = 0),
       model # "temporal" \/ \A l \in 1..Len(Nt) : Nt[l] = N,
       model # "multilevel" \/ \A l \in 1..Len(Nt) : Nt[l] > 0,
       model # "multilevel" \/ \A v \in 1..vcount(Ge) : in_degrees(Ge)[v] <= 1,
       model # "multiplex" \/ \A l \in 1..Len(Nt) : Nt[l] = N,
       model # "multiplex" \/ ecount(Ge) = N * T * (T - 1) >>

SeqOfIds == [i \in RuleIds |-> i]
\* "\n".join(m for c, m in zip(checks, messages) if not c)
FailedMessages(cs) ==
    LET failed == SelectSeq(SeqOfIds, LAMBDA i : ~cs[i])
    IN  [k \in 1..Len(failed) |-> messages[failed[k]]]

check_multilayer_graph_consistency(Gi, Ge, lv, model, m_t, T, N, Nt) ==
    IF SameLayerRaises(Gi, lv)
    THEN Raised("IndexError", "index out of range", <<>>)
    ELSE LET cs == checks(Gi, Ge, lv, model, m_t, T, N, Nt)
         IN  IF \A i \in RuleIds : cs[i]
             THEN NoOutcome
             ELSE Malformed(FailedMessages(cs))

\* ---- the multilayer estimator before its loop -----------------------------
\* T = max(layer_vec) + 1
LayerCount(lv) == SeqMax(lv) + 1
\* m_t: total edge weight per layer, indexed by the layer of each edge's source
EdgeWeights(Gi, lv) ==
    [l \in 1..LayerCount(lv) |->
        Cardinality({e \in Gi.es : At(lv, e[1]) = l - 1})]
\* Nt: node count per layer
NodeCounts(lv) ==
    [l \in 1..LayerCount(lv) |-> Cardinality({i \in 1..Len(lv) : lv[i] = l - 1})]

\* lines 145-159 of the estimator: the first error they raise, or NoOutcome
Prepare(Gi, Ge, lv, model) ==
    IF \E e \in Gi.es : ~InVec(lv, e[1])
    THEN Raised("IndexError", "index out of range", <<>>)
    ELSE check_multilayer_graph_consistency(Gi, Ge, lv, model, EdgeWeights(Gi, lv),
                                            LayerCount(lv), vcount(Gi) \div LayerCount(lv),
                                            NodeCounts(lv))

\* ---- state ----------------------------------------------------------------
VARIABLES
    fn,            \* the function called: "mono", "multi" or "champ"
    pc,            \* "start", "loop" or "done"
    G_intralayer, G_interlayer, layer_vec, model,   \* arguments of the multilayer estimator
    method,        \* argument of the monolayer estimator
    max_iter, verbose,
    gamma, omega, last_gamma, last_omega, part,
    p,             \* the coupling probability estimated in the last iteration
    iteration,     \* iterations of the for loop completed
    calls,         \* invocations of the external optimizer
    checked,       \* runs of check_multilayer_graph_consistency
    stopped,       \* how the loop ended: "", "break" or "exhausted"
    printed,       \* kinds of the lines written to standard output, in order
    outcome,       \* what the call returned or raised
    G, all_parts, gamma_0, gamma_f,   \* arguments of CHAMP_2D
    ranges,        \* the list CHAMP_2D returns
    halfspaces, singlelayer,          \* arguments of get_interior_point
    sampled,       \* indices of the interior halfspaces drawn by choice()
    res,           \* what linprog returned
    lp_calls,      \* how many times linprog has been called
    intpt,         \* the point get_interior_point returns
    omega_0, omega_f,                 \* arguments of CHAMP_3D
    attempt_log,   \* how each call of get_intersection ended, in order
    champ_domains, \* what the last successful get_intersection returned
    domains,       \* the list CHAMP_3D returns
    coefs,         \* the arrays a partition_coefficients function returns
    weights,       \* the 'weight' edge attribute of each graph the caller passed
    gammas, omegas,                   \* arguments of repeated_parallel_louvain_from_gammas(_omegas)
    chunks_done,   \* chunks of chunk_params the loop has finished
    open_pools,    \* worker pools created and not yet closed
    pools_created, \* worker pools created so far
    submitted,     \* how many times each point was handed to starmap
    produced,      \* the memberships the workers have returned
    total,         \* the set the function accumulates and returns
    t_given,       \* the tuple sorted_tuple is called with
    t_sorted,      \* the tuple sorted_tuple returns
    optimal_parts, \* argument of optimal_parts_to_ranges
    i_pos,         \* its index i
    current,       \* the sample (gamma_start, Q, part) that opened the current run
    gamma_end      \* the end of the current run so far

vars == <<fn, pc, G_intralayer, G_interlayer, layer_vec, model, method, max_iter, verbose,
          gamma, omega, last_gamma, last_omega, part, p, iteration, calls, checked,
          stopped, printed, outcome, G, all_parts, gamma_0, gamma_f, ranges,
          halfspaces, singlelayer, sampled, res, lp_calls, intpt,
          omega_0, omega_f, attempt_log, champ_domains, domains,
          coefs,
          weights,
          gammas, omegas, chunks_done, open_pools, pools_created, submitted, produced, total,
          t_given, t_sorted,
          optimal_parts, i_pos, current, gamma_end>>

champ == <<G, all_parts, gamma_0, gamma_f, ranges>>
interior == <<halfspaces, singlelayer, sampled, res, lp_calls, intpt>>
NoRes == [status |-> None, x |-> <<>>]
NoInterior ==
    /\ halfspaces = <<>> /\ singlelayer = TRUE /\ sampled = {} /\ res = NoRes
    /\ lp_calls = 0 /\ intpt = <<>>
graphs == <<fn, G_intralayer, G_interlayer, layer_vec, model>>
inputs == <<graphs, method, max_iter, verbose>>
champ3d == <<omega_0, omega_f, attempt_log, champ_domains, domains>>

\* the value of a variable the called function does not have
NoGraph == Graph(0, {}, FALSE)
estimator == <<G_intralayer, G_interlayer, layer_vec, model, method, max_iter, verbose,
               gamma, omega, last_gamma, last_omega, part, p, iteration, calls, checked,
               stopped, printed>>
NoEstimator ==
    /\ G_intralayer = NoGraph /\ G_interlayer = NoGraph /\ layer_vec = <<>>
    /\ model = "" /\ method = "" /\ max_iter = 0 /\ verbose = FALSE
    /\ gamma = None /\ omega = None /\ last_gamma = None /\ last_omega = None
    /\ part = NoPart /\ p = None /\ iteration = 0 /\ calls = 0 /\ checked = 0
    /\ stopped = "" /\ printed = <<>>
NoChamp == G = NoGraph /\ all_parts = <<>> /\ gamma_0 = 0 /\ gamma_f = 0 /\ ranges = <<>>
NoChamp3D ==
    /\ omega_0 = 0 /\ omega_f = 0 /\ attempt_log = <<>> /\ champ_domains = {}
    /\ domains = <<>>
\* An edge attribute is <<>> where the graph has none of that name and <<w>>
\* where every edge carries the value w.
Unweighted == [G |-> <<>>, G_intralayer |-> <<>>, G_interlayer |-> <<>>]
attributes == <<weights>>
NoWeights == weights = Unweighted
parallel == <<gammas, omegas, chunks_done, open_pools, pools_created, submitted, produced, total>>
NoParallel ==
    /\ gammas = <<>> /\ omegas = <<>> /\ chunks_done = 0 /\ open_pools = 0
    /\ pools_created = 0 /\ submitted = <<>> /\ produced = {} /\ total = {}
canon == <<t_given, t_sorted>>
NoCanon == t_given = <<>> /\ t_sorted = <<>>
runs == <<optimal_parts, i_pos, current, gamma_end>>
NoRuns == optimal_parts = <<>> /\ i_pos = 0 /\ current = <<>> /\ gamma_end = None
coefficients == <<coefs>>
NoCoefs == coefs = <<>>
outside_coefficients == <<interior, champ3d, gamma_0, gamma_f, ranges, method, max_iter, verbose,
                          gamma, omega, last_gamma, last_omega, part, p, iteration, calls,
                          checked, stopped, printed, model, attributes, parallel, canon, runs>>
\* the variables of the other functions, which a function leaves alone
outside_estimator == <<champ, interior, champ3d, coefficients, parallel, canon, runs>>
outside_champ == <<estimator, interior, champ3d, coefficients, attributes, parallel, canon, runs>>
outside_interior == <<estimator, champ, champ3d, coefficients, attributes, parallel, canon, runs>>
outside_parallel == <<estimator, champ, interior, champ3d, coefficients, attributes, canon, runs>>
outside_canon == <<estimator, champ, interior, champ3d, coefficients, attributes, parallel, runs>>
outside_runs == <<estimator, G, all_parts, gamma_0, gamma_f, interior, champ3d, coefficients,
                  attributes, parallel, canon>>
outside_champ3d == <<estimator, interior, G, ranges, coefficients, attributes, parallel, canon, runs>>

\* ---- the loop's tests -------------------------------------------------------
\* a convergence test that also stops at a move of exactly tol
MonoConvergedInclusive(g, lg) == Abs(g - lg) <= tol
\* if abs(gamma - last_gamma) < tol: break
MonoConverged(g, lg) == Abs(g - lg) < tol
\* a convergence test that stops when either parameter has settled
MultiConvergedEither(g, lg, w, lw) == Abs(g - lg) < gamma_tol \/ Abs(w - lw) < omega_tol
\* if abs(gamma - last_gamma) < gamma_tol and abs(omega - last_omega) < omega_tol: break
MultiConverged(g, lg, w, lw) == Abs(g - lg) < gamma_tol /\ Abs(w - lw) < omega_tol
\* a range test that lets a negative estimate through
ImpossiblePAboveOnly(q) == q > POne
\* if not 0.0 <= p <= 1.0: raise
ImpossibleP(q) == ~(0 <= q /\ q <= POne)
\* a loop that does not look at the update's result
DegenerateIgnored(g) == FALSE
\* if gamma is None: raise
Degenerate(g) == g = None
\* for iteration in range(max_iter)
InRange(i, n) == i < n

\* the lines written when verbose: one per iteration, one when the loop runs
\* out of iterations, one before the return
IterLines(v) == IF v THEN <<"Iter">> ELSE <<>>
NotConvergedLinesSilent(v, line) == <<>>
NotConvergedLines(v, line) == IF v THEN <<line>> ELSE <<>>
ReturnedLines(v) == IF v THEN <<"Returned">> ELSE <<>>

\* The optimizer helpers are called with keywords (return_partition=True,
\* optimiser=optimiser) that singlelayer_louvain(G, gamma) and
\* multilayer_louvain(G_intralayer, G_interlayer, layer_vec, gamma, omega) of
\* louvain_utilities.py do not take: that call raises TypeError.  A helper that
\* takes them returns a partition object.  Both outcomes are kept.
LouvainOutcomes == {"TypeError", "partition"}
\* maximize_modularity of the monolayer estimator
MonoOptimizerOutcomes(m) == IF m = "louvain" THEN LouvainOutcomes ELSE {"partition"}
\* gamma_estimate_from_parameters: a number, or None where the update is undefined
GammaEstimates == GammaValues \cup {None}

\* max_iter and verbose are arguments that the code reads first in its loop:
\* they are drawn when the loop is set up, and stay as initialised in a call
\* that fails before its loop
LoopArguments == max_iter' \in 0..MaxIter /\ verbose' \in BOOLEAN

\* if 'weight' not in G.es: G.es['weight'] = [1.0] * G.ecount()
WithWeight(w) == IF w = <<>> THEN <<1>> ELSE w

\* ---- iterative_monolayer_resolution_parameter_estimation --------------------
\* lines 23-43: the graph is given unit weights if it has none, the method is
\* resolved, part and last_gamma start as None
MonoStart ==
    /\ fn = "mono" /\ pc = "start"
    /\ IF method \in {"louvain", "2-spinglass"}
       THEN pc' = "loop" /\ outcome' = outcome /\ LoopArguments
       ELSE /\ pc' = "done"
            /\ outcome' = Raised("ValueError", "Community detection method not supported", <<>>)
            /\ UNCHANGED <<max_iter, verbose>>
    /\ weights' = [weights EXCEPT !.G = WithWeight(@)]
    /\ UNCHANGED <<outside_estimator, graphs, method, gamma, omega, last_gamma, last_omega, part, p, iteration,
                   calls, checked, stopped, printed>>

\* lines 44-59 and, after a break, 65-68: one pass of the loop body
MonoIterate ==
    /\ fn = "mono" /\ pc = "loop" /\ InRange(iteration, max_iter)
    /\ iteration' = iteration + 1
    /\ calls' = calls + 1
    /\ \E oc \in MonoOptimizerOutcomes(method) :
        IF oc = "TypeError"
        THEN /\ outcome' = Raised("TypeError", "unexpected keyword argument", <<>>)
             /\ pc' = "done"
             /\ UNCHANGED <<gamma, last_gamma, part, stopped, printed>>
        ELSE \E g \in GammaEstimates :
             /\ part' = Part(calls + 1, gamma, None)
             /\ last_gamma' = gamma
             /\ gamma' = g
             /\ IF Degenerate(g)
                THEN /\ outcome' = Raised("ValueError", "resulted in degenerate partition",
                                          <<gamma>>)
                     /\ pc' = "done"
                     /\ UNCHANGED <<stopped, printed>>
                ELSE IF MonoConverged(g, gamma)
                THEN /\ stopped' = "break"
                     /\ printed' = printed \o IterLines(verbose) \o ReturnedLines(verbose)
                     /\ outcome' = Returned(g, None, part')
                     /\ pc' = "done"
                ELSE /\ printed' = printed \o IterLines(verbose)
                     /\ UNCHANGED <<stopped, outcome, pc>>
    /\ UNCHANGED <<outside_estimator, inputs, weights, omega, last_omega, p, checked>>

\* lines 60-68: the loop ran out of iterations; its else clause, then the return
MonoExhaust ==
    /\ fn = "mono" /\ pc = "loop" /\ ~InRange(iteration, max_iter)
    /\ pc' = "done"
    /\ stopped' = "exhausted"
    /\ IF verbose /\ last_gamma = None
       THEN \* abs(gamma - last_gamma) with last_gamma None
            /\ outcome' = Raised("TypeError", "unsupported operand type(s) for -", <<>>)
            /\ printed' = printed
       ELSE /\ printed' = printed \o NotConvergedLines(verbose, "Gamma failed to converge")
                                  \o ReturnedLines(verbose)
            /\ outcome' = Returned(gamma, None, part)
    /\ UNCHANGED <<outside_estimator, inputs, weights, gamma, omega, last_gamma, last_omega, part, p,
                   iteration, calls, checked>>

\* ---- iterative_multilayer_resolution_parameter_estimation -------------------
\* lines 139-171: unit weights for a graph that has none, layer statistics, the
\* consistency check, the loop's variables
MultiStart ==
    /\ fn = "multi" /\ pc = "start"
    /\ LET r == Prepare(G_intralayer, G_interlayer, layer_vec, model)
       IN  /\ outcome' = r
           /\ IF r = NoOutcome
              THEN pc' = "loop" /\ LoopArguments
              ELSE pc' = "done" /\ UNCHANGED <<max_iter, verbose>>
    /\ checked' = IF \E e \in G_intralayer.es : ~InVec(layer_vec, e[1])
                  THEN checked ELSE checked + 1
    /\ weights' = [weights EXCEPT !.G_intralayer = WithWeight(@),
                                  !.G_interlayer = WithWeight(@)]
    /\ UNCHANGED <<outside_estimator, graphs, method, gamma, omega, last_gamma, last_omega, part, p, iteration,
                   calls, stopped, printed>>

\* lines 172-192 and, after a break, 199-202: one pass of the loop body
MultiIterate ==
    /\ fn = "multi" /\ pc = "loop" /\ InRange(iteration, max_iter)
    /\ iteration' = iteration + 1
    /\ calls' = calls + 1
    /\ \E oc \in LouvainOutcomes :
        IF oc = "TypeError"
        THEN /\ outcome' = Raised("TypeError", "unexpected keyword argument", <<>>)
             /\ pc' = "done"
             /\ UNCHANGED <<gamma, omega, last_gamma, last_omega, part, p, stopped, printed>>
        ELSE \E q \in PValues :
             /\ part' = Part(calls + 1, gamma, omega)
             /\ p' = q
             /\ IF ImpossibleP(q)
                THEN /\ outcome' = Raised("ValueError", "resulted in impossible estimate",
                                          <<gamma, omega, q>>)
                     /\ pc' = "done"
                     /\ UNCHANGED <<gamma, omega, last_gamma, last_omega, stopped, printed>>
                ELSE \E g \in GammaEstimates :
                     /\ last_gamma' = gamma
                     /\ last_omega' = omega
                     /\ gamma' = g
                     /\ IF Degenerate(g)
                        THEN /\ outcome' = Raised("ValueError",
                                                  "resulted in degenerate partition",
                                                  <<gamma, omega>>)
                             /\ pc' = "done"
                             /\ UNCHANGED <<omega, stopped, printed>>
                        ELSE \E w \in OmegaValues :
                             /\ omega' = w
                             /\ IF MultiConverged(g, gamma, w, omega)
                                THEN /\ stopped' = "break"
                                     /\ printed' = printed \o IterLines(verbose)
                                                           \o ReturnedLines(verbose)
                                     /\ outcome' = Returned(g, w, part')
                                     /\ pc' = "done"
                                ELSE /\ printed' = printed \o IterLines(verbose)
                                     /\ UNCHANGED <<stopped, outcome, pc>>
    /\ UNCHANGED <<outside_estimator, inputs, weights, checked>>

\* lines 193-202: the loop ran out of iterations; its else clause, then the return
MultiExhaust ==
    /\ fn = "multi" /\ pc = "loop" /\ ~InRange(iteration, max_iter)
    /\ pc' = "done"
    /\ stopped' = "exhausted"
    /\ IF verbose /\ last_gamma = None
       THEN \* abs(gamma - last_gamma) with last_gamma None
            /\ outcome' = Raised("TypeError", "unsupported operand type(s) for -", <<>>)
            /\ printed' = printed
       ELSE /\ printed' = printed
                              \o NotConvergedLines(verbose, "Parameters failed to converge")
                              \o ReturnedLines(verbose)
            /\ outcome' = Returned(gamma, omega, part)
    /\ UNCHANGED <<outside_estimator, inputs, weights, gamma, omega, last_gamma, last_omega, part, p,
                   iteration, calls, checked>>

\* ---- the estimators' specification ------------------------------------------
InitLoop ==
    /\ pc = "start"
    /\ max_iter = 0 /\ verbose = FALSE
    /\ last_gamma = None /\ last_omega = None /\ part = NoPart /\ p = None
    /\ iteration = 0 /\ calls = 0 /\ checked = 0
    /\ stopped = "" /\ printed = <<>> /\ outcome = NoOutcome
    /\ NoChamp /\ NoInterior /\ NoChamp3D /\ NoCoefs /\ NoWeights /\ NoParallel /\ NoCanon /\ NoRuns

InitMono ==
    /\ fn = "mono"
    /\ method \in Methods
    /\ G_intralayer = NoGraph /\ G_interlayer = NoGraph
    /\ layer_vec = <<>> /\ model = ""
    /\ gamma = GammaStart /\ omega = None
    /\ InitLoop

InitMulti ==
    /\ fn = "multi"
    /\ method = ""
    /\ G_intralayer \in IntraGraphs
    /\ G_interlayer \in InterGraphs
    /\ layer_vec \in LayerVecs
    /\ model \in Models
    /\ gamma = GammaStart /\ omega = OmegaStart
    /\ InitLoop

Init == InitMono \/ InitMulti

Next ==
    \/ MonoStart
    \/ MonoIterate
    \/ MonoExhaust
    \/ MultiStart
    \/ MultiIterate
    \/ MultiExhaust

Spec == Init /\ [][Next]_vars

\* ---- properties of the estimators -------------------------------------------
Mono == fn = "mono"
Multi == fn = "multi"
\* a step of the loop body in which the optimizer returned and the estimates
\* were computed
Estimated == pc = "loop" /\ part' # part
DegenerateMsg == "resulted in degenerate partition"
ImpossibleMsg == "resulted in impossible estimate"
NotConvergedReported ==
    \E i \in 1..Len(printed) :
        printed[i] \in {"Gamma failed to converge", "Parameters failed to converge"}

\* C1: in the monolayer estimator, an iteration whose new gamma is within tol
\* of the gamma it started from ends the call at once, returning that gamma
\* and that iteration's partition; an iteration whose new gamma is not within
\* tol leaves the loop running, and the loop calls the optimizer again while
\* fewer than max_iter iterations have run; a finished call makes no call.
C1_StopsExactlyWhenWithinTol ==
    [][/\ (Mono /\ Estimated /\ gamma' # None) =>
            /\ last_gamma' = gamma
            /\ part' = Part(calls', gamma, None)
            /\ IF Abs(gamma' - gamma) < tol
               THEN pc' = "done" /\ outcome' = Returned(gamma', None, part')
               ELSE pc' = "loop" /\ outcome' = NoOutcome
       /\ (Mono /\ pc = "loop" /\ iteration < max_iter) => calls' = calls + 1
       /\ (Mono /\ pc = "done") => calls' = calls]_vars
C1_Witness ==
    Mono /\ stopped = "break" /\ iteration = 2 /\ outcome = Returned(gamma, None, part)

C3_ExhaustionReturnsLastValues ==
    (/\ pc = "done" /\ stopped # "break"
     /\ (calls > 0 \/ stopped = "exhausted")
     /\ outcome.msg \notin {DegenerateMsg, ImpossibleMsg})
    => outcome = Returned(gamma, omega, part)

\* C4: in both estimators, an iteration whose gamma update is None ends the
\* call in that iteration with a ValueError naming the gamma (and omega) that
\* iteration passed to the optimizer; the call never runs on with gamma None,
\* never returns it, and makes no further optimizer call.
C4_DegenerateRaisesAtOnce ==
    [][/\ (Estimated /\ gamma' = None) =>
            /\ pc' = "done"
            /\ outcome' = Raised("ValueError", DegenerateMsg,
                                 IF Mono THEN <<gamma>> ELSE <<gamma, omega>>)
            /\ calls' = calls + 1
       /\ (gamma = None) => (pc = "done" /\ outcome.kind = "raised" /\ calls' = calls)]_vars
C4_Witness ==
    /\ Multi /\ gamma = None /\ iteration = 2
    /\ outcome = Raised("ValueError", DegenerateMsg, <<last_gamma, last_omega>>)

\* C5: an iteration of the multilayer estimator that computed both updates
\* ends the loop as converged if and only if the new gamma is within gamma_tol
\* and the new omega is within omega_tol of the pair that iteration passed to
\* the optimizer.
C5_ConvergedIffBothWithinTol ==
    [][(Multi /\ Estimated /\ outcome'.kind # "raised") =>
            /\ last_gamma' = gamma /\ last_omega' = omega
            /\ part' = Part(calls', gamma, omega)
            /\ (stopped' = "break" /\ pc' = "done")
                  <=> (Abs(gamma' - gamma) < gamma_tol /\ Abs(omega' - omega) < omega_tol)
            /\ (stopped' # "break") => (pc' = "loop" /\ stopped' = "")]_vars
\* one delta under its tolerance, the other not: the loop is still running
C5_Witness ==
    /\ Multi /\ pc = "loop" /\ iteration > 0
    /\ Abs(gamma - last_gamma) < gamma_tol
    /\ Abs(omega - last_omega) >= omega_tol

\* C6: an iteration of the multilayer estimator whose estimated p is below 0
\* or above 1 raises a ValueError naming that iteration's gamma, omega and p,
\* with gamma, omega and their last values untouched and the loop not counted
\* as exhausted; an iteration whose p is in [0,1], its ends included, does not.
C6_ImpossiblePRaisesBeforeUpdate ==
    [][(Multi /\ Estimated) =>
            IF p' < 0 \/ p' > POne
            THEN /\ outcome' = Raised("ValueError", ImpossibleMsg, <<gamma, omega, p'>>)
                 /\ pc' = "done" /\ stopped' = ""
                 /\ gamma' = gamma /\ omega' = omega
                 /\ last_gamma' = last_gamma /\ last_omega' = last_omega
            ELSE outcome'.msg # ImpossibleMsg]_vars
C6_Witness ==
    /\ Multi /\ pc = "done" /\ iteration = 2 /\ p < 0
    /\ outcome = Raised("ValueError", ImpossibleMsg, <<gamma, omega, p>>)

\* the rules of the checker that the call's arguments violate, where they can
\* all be evaluated
RuleHolds ==
    checks(G_intralayer, G_interlayer, layer_vec, model, EdgeWeights(G_intralayer, layer_vec),
           LayerCount(layer_vec), vcount(G_intralayer) \div LayerCount(layer_vec),
           NodeCounts(layer_vec))
ViolatedMessages == FailedMessages(RuleHolds)

\* C7: when the consistency check has run, it has either raised one ValueError
\* listing the message of every violated rule and of no other, in rule order,
\* or, exactly when no rule is violated, returned.
C7_EveryViolatedRuleReported ==
    (Multi /\ checked = 1) =>
        IF ViolatedMessages = <<>>
        THEN pc = "loop" \/ calls > 0 \/ stopped = "exhausted"
        ELSE outcome = Malformed(ViolatedMessages)

\* the call's arguments are malformed: a layer vector that does not match the
\* vertex count, or any other violated rule
MalformedInput ==
    \/ Len(layer_vec) # vcount(G_intralayer)
    \/ ViolatedMessages # <<>>
\* C8: the multilayer estimator checks consistency once, before its loop: for
\* a malformed input it never calls the optimizer and fails with the
\* aggregated malformed-input error.
C8_MalformedInputFailsAggregated ==
    /\ checked <= 1
    /\ (Multi /\ pc # "start" /\ MalformedInput) =>
            /\ calls = 0
            /\ checked = 1
            /\ outcome.type = "ValueError" /\ outcome.msg = "Input graph is malformed"

\* C9: a finished call of the multilayer estimator has called the optimizer at
\* most max_iter times and has either returned a gamma/omega pair or raised
\* one of the classified errors (degenerate partition, impossible p, malformed
\* input).
C9_OnlyClassifiedOutcomes ==
    (Multi /\ pc = "done") =>
        /\ calls <= max_iter
        /\ \/ outcome.kind = "returned"
           \/ /\ outcome.type = "ValueError"
              /\ outcome.msg \in {DegenerateMsg, ImpossibleMsg, "Input graph is malformed"}

\* ---- CHAMP_2D ---------------------------------------------------------------
\* The candidates are memberships of one graph on the vertices below; the
\* graph has at least one edge.  gamma_0 and gamma_f are whole numbers.  All
\* coordinates are exact fractions: a halfspace row (a, b, c) stands for
\* a*gamma + b*Q + c <= 0 and is the source's row multiplied by the positive
\* denominator of P_hat, which leaves the halfspace unchanged.
ChampVertices == {0, 1, 2}
ChampGraphs ==
    {Graph(Cardinality(ChampVertices), es, d) :
        es \in {E \in SUBSET UPairs(Cardinality(ChampVertices)) :
                    E # {} /\ Cardinality(E) <= MaxChampEdges},
        d \in BOOLEAN}
\* memberships number the communities in order of first appearance
Memberships ==
    {m \in [1..Cardinality(ChampVertices) -> 0..(Cardinality(ChampVertices) - 1)] :
        \A i \in DOMAIN m : m[i] <= Cardinality({m[j] : j \in 1..(i - 1)})}
LexLess(a, b) == \E i \in DOMAIN a : a[i] < b[i] /\ \A j \in 1..(i - 1) : a[j] = b[j]
\* a set of candidates, listed once each
CandidateLists ==
    {s \in SeqsUpTo(Memberships, MaxParts) : \A i \in 1..(Len(s) - 1) : LexLess(s[i], s[i + 1])}
GammaBounds == 0..MaxGammaF

RECURSIVE SetSum(_, _)
SetSum(S, f) == IF S = {} THEN 0
                ELSE LET x == CHOOSE y \in S : TRUE IN f[x] + SetSum(S \ {x}, f)
SetMax(S) == CHOOSE x \in S : \A y \in S : y <= x
SetMin(S) == CHOOSE x \in S : \A y \in S : x <= y
RECURSIVE GCD(_, _)
GCD(a, b) == IF b = 0 THEN a ELSE GCD(b, a % b)

\* G.degree(): every edge end at the vertex, a loop counting twice
all_degrees(g) ==
    [v \in 0..(g.n - 1) |->
        Cardinality({e \in g.es : e[1] = v}) + Cardinality({e \in g.es : e[2] = v})]
membership_to_communities(m) ==
    [c \in {m[i] : i \in DOMAIN m} |-> {v \in 0..(Len(m) - 1) : m[v + 1] = c}]
twom(g) == 2 * ecount(g)
\* A_hat of one membership
A_hat(g, m) ==
    (IF is_directed(g) THEN 1 ELSE 2) * Cardinality({e \in g.es : m[e[1] + 1] = m[e[2] + 1]})
\* P_hat of one membership is PNum / PDen
PNum(g, m) ==
    LET degree == all_degrees(g)
        comms == membership_to_communities(m)
        strength == [c \in DOMAIN comms |-> SetSum(comms[c], degree)]
    IN  SetSum(DOMAIN comms, [c \in DOMAIN comms |-> strength[c] * strength[c]])
PDenAsUndirected(g) == twom(g)
PDen(g) == IF is_directed(g) THEN 2 * twom(g) ELSE twom(g)
partition_coefficients_2D(g, partitions) ==
    [i \in DOMAIN partitions |-> [A |-> A_hat(g, partitions[i]), P |-> PNum(g, partitions[i])]]

\* rows (-P_hat, -1, A_hat), times PDen
halfspaces_from_coefficients_2D(cs, den) ==
    [i \in DOMAIN cs |-> <<0 - cs[i].P, 0 - den, den * cs[i].A>>]
\* max(A_hats - P_hats * gamma_0), times PDen
TopLowest(cs, den, g0) == SetMin({den * cs[i].A - cs[i].P * g0 : i \in DOMAIN cs})
Top(cs, den, g0) == SetMax({den * cs[i].A - cs[i].P * g0 : i \in DOMAIN cs})
\* the partitions' halfspaces followed by Q <= top and gamma <= right
Halfspaces(g, partitions, g0, gf) ==
    LET cs == partition_coefficients_2D(g, partitions)
        den == PDen(g)
    IN  halfspaces_from_coefficients_2D(cs, den)
            \o << <<0, den, 0 - Top(cs, den, g0)>>, <<1, 0, 0 - gf>> >>

\* the point (x/d, y/d) where the boundary lines of two rows meet, in lowest
\* terms with d > 0
Det(h, k) == h[1] * k[2] - h[2] * k[1]
Meet(h, k) ==
    LET det == Det(h, k)
        sg == IF det < 0 THEN 0 - 1 ELSE 1
        xn == sg * (h[2] * k[3] - h[3] * k[2])
        yn == sg * (h[3] * k[1] - h[1] * k[3])
        dn == sg * det
        c == GCD(GCD(Abs(xn), Abs(yn)), dn)
    IN  [x |-> xn \div c, y |-> yn \div c, d |-> dn \div c]
Slack(v, h) == h[1] * v.x + h[2] * v.y + h[3] * v.d
Inside(v, h) == Slack(v, h) <= 0
On(v, h) == Slack(v, h) = 0

\* HalfspaceIntersection: the vertices of the region
Intersections(H) ==
    {v \in {Meet(H[i], H[j]) :
                <<i, j>> \in {ij \in (DOMAIN H) \X (DOMAIN H) :
                                 ij[1] < ij[2] /\ Det(H[ij[1]], H[ij[2]]) # 0}} :
        \A k \in DOMAIN H : Inside(v, H[k])}
\* linprog's default bounds keep every variable of the LP non-negative
NonNegative == << <<0 - 1, 0, 0>>, <<0, 0 - 1, 0>> >>
\* get_interior_point succeeds when some point with non-negative coordinates
\* lies strictly inside every halfspace: the part of the region with
\* gamma >= 0 and Q >= 0 is not empty and no row's line holds all of it
HasInterior(H) ==
    LET V == Intersections(H \o NonNegative)
    IN  V # {} /\ \A i \in DOMAIN H : \E v \in V : ~On(v, H[i])

\* a row bounds the region along an edge when two vertices lie on its line
IsFacet(H, V, i) == Cardinality({v \in V : On(v, H[i])}) >= 2
\* of several identical rows Qhull keeps one as a facet
KeptRowsAll(H) == {DOMAIN H}
KeptRows(H) ==
    {K \in SUBSET DOMAIN H : \A i \in DOMAIN H : Cardinality({j \in K : H[j] = H[i]}) = 1}
\* hs.dual_facets of the vertex v
dual_facets(H, V, K, v) == {i \in K : IsFacet(H, V, i) /\ On(v, H[i])}
facets_by_halfspace(H, V, K, num_partitions) ==
    [i \in {j \in 1..num_partitions : \E v \in V : j \in dual_facets(H, V, K, v)} |->
        {v \in V : i \in dual_facets(H, V, K, v)}]

\* the gamma coordinate of a vertex, in lowest terms
Frac(n, d) == LET c == GCD(Abs(n), d) IN <<n \div c, d \div c>>
FracLess(a, b) == a[1] * b[2] < b[1] * a[2]
FracLeq(a, b) == a[1] * b[2] <= b[1] * a[2]
XOf(v) == Frac(v.x, v.d)
FracMin(S) == CHOOSE a \in S : \A b \in S : FracLeq(a, b)
FracMax(S) == CHOOSE a \in S : \A b \in S : FracLeq(b, a)
Range(x1, x2, m) == [start |-> x1, end |-> x2, membership |-> m]
RECURSIVE SortedByStart(_)
RECURSIVE LatestFirst(_)
LatestFirst(S) ==
    IF S = {} THEN <<>>
    ELSE LET r == CHOOSE a \in S : \A b \in S : FracLeq(a.start, b.start)
         IN  LatestFirst(S \ {r}) \o <<r>>
SortedByStart(S) ==
    IF S = {} THEN <<>>
    ELSE LET r == CHOOSE a \in S : \A b \in S : FracLeq(a.start, b.start)
         IN  <<r>> \o SortedByStart(S \ {r})

CHAMP_2D ==
    /\ fn = "CHAMP_2D" /\ pc = "start"
    /\ pc' = "done"
    /\ IF Len(all_parts) = 0
       THEN \* max() of an empty array
            /\ outcome' = Raised("ValueError", "", <<>>)
            /\ ranges' = <<>>
       ELSE \* each value is computed once and named
            \E H \in {Halfspaces(G, all_parts, gamma_0, gamma_f)} :
            \E V \in {Intersections(H)} :
                IF ~HasInterior(H)
                THEN /\ outcome' = Raised("AssertionError", "", <<>>)
                     /\ ranges' = <<>>
                ELSE \E K \in KeptRows(H) :
                     \E facets \in {facets_by_halfspace(H, V, K, Len(all_parts))} :
                        /\ ranges' =
                            SortedByStart(
                                {Range(FracMin({XOf(v) : v \in facets[i]}),
                                       FracMax({XOf(v) : v \in facets[i]}),
                                       all_parts[i]) : i \in DOMAIN facets})
                        /\ outcome' = Returned(None, None, NoPart)
    /\ UNCHANGED <<fn, G, all_parts, gamma_0, gamma_f, outside_champ>>

InitChamp ==
    /\ fn = "CHAMP_2D" /\ pc = "start"
    /\ G \in ChampGraphs
    /\ all_parts \in CandidateLists
    /\ gamma_0 \in GammaBounds /\ gamma_f \in GammaBounds
    /\ ranges = <<>> /\ outcome = NoOutcome
    /\ NoEstimator /\ NoInterior /\ NoChamp3D /\ NoCoefs /\ NoWeights /\ NoParallel /\ NoCanon /\ NoRuns

NextChamp == CHAMP_2D

SpecChamp == InitChamp /\ [][NextChamp]_vars

\* ---- properties of CHAMP_2D ---------------------------------------------------
ChampReturned == fn = "CHAMP_2D" /\ outcome.kind = "returned"
Whole(n) == <<n, 1>>
\* two candidates with the same A_hat and P_hat, one of them given an interval
SharedCoefficients ==
    \E i, j \in DOMAIN all_parts :
        /\ i # j
        /\ A_hat(G, all_parts[i]) = A_hat(G, all_parts[j])
        /\ PNum(G, all_parts[i]) = PNum(G, all_parts[j])
        /\ \E k \in DOMAIN ranges : ranges[k].membership = all_parts[i]

\* C10: whenever CHAMP_2D returns, its intervals tessellate [gamma_0, gamma_f]:
\* some interval starts at gamma_0 and none earlier, some interval ends at
\* gamma_f and none later, each interval ends where the next one starts, and
\* two different intervals have at most one point in common.
C10_IntervalsTessellate ==
    ChampReturned =>
        /\ \E k \in DOMAIN ranges : ranges[k].start = Whole(gamma_0)
        /\ \A k \in DOMAIN ranges : FracLeq(Whole(gamma_0), ranges[k].start)
        /\ \E k \in DOMAIN ranges : ranges[k].end = Whole(gamma_f)
        /\ \A k \in DOMAIN ranges : FracLeq(ranges[k].end, Whole(gamma_f))
        /\ \A k \in 1..(Len(ranges) - 1) : ranges[k].end = ranges[k + 1].start
        /\ \A k, l \in DOMAIN ranges :
              k # l => \/ FracLeq(ranges[k].end, ranges[l].start)
                       \/ FracLeq(ranges[l].end, ranges[k].start)
\* CHAMP_2D has returned at least two intervals, one of them for a candidate
\* whose coefficients another candidate shares
C10_Witness == ChampReturned /\ Len(ranges) >= 2 /\ SharedCoefficients

\* the quality A_hat - gamma * P_hat of a membership at gamma = x[1] / x[2],
\* times the positive number PDen(G) * x[2]
QualityAt(m, x) == PDen(G) * A_hat(G, m) * x[2] - PNum(G, m) * x[1]
\* the points that cut an interval into MaxSamples equal parts
SamplesInside(r) ==
    IF ~FracLess(r.start, r.end) THEN {}
    ELSE {Frac(r.start[1] * r.end[2] * (MaxSamples - k) + r.end[1] * r.start[2] * k,
               r.start[2] * r.end[2] * MaxSamples) : k \in 1..(MaxSamples - 1)}
\* where the quality lines of two memberships cross, if they do
Crossings(m1, m2) ==
    LET dp == PNum(G, m1) - PNum(G, m2)
        da == PDen(G) * (A_hat(G, m1) - A_hat(G, m2))
    IN  IF dp = 0 THEN {}
        ELSE {IF dp < 0 THEN Frac(0 - da, 0 - dp) ELSE Frac(da, dp)}
\* the ends of the swept range and every crossing inside it: a candidate that
\* is beaten at each of these is beaten on the whole range, the best quality
\* of the others being convex in gamma
CriticalPoints ==
    {Whole(gamma_0), Whole(gamma_f)}
    \cup {x \in UNION {Crossings(all_parts[i], all_parts[j]) : i, j \in DOMAIN all_parts} :
            FracLeq(Whole(gamma_0), x) /\ FracLeq(x, Whole(gamma_f))}
StrictlyDominated(m) ==
    \A x \in CriticalPoints :
        \E j \in DOMAIN all_parts : QualityAt(all_parts[j], x) > QualityAt(m, x)
\* some candidate has a positive quality at gamma_0
TopPositive == \E i \in DOMAIN all_parts : QualityAt(all_parts[i], Whole(gamma_0)) > 0
HasInterval(m) == \E k \in DOMAIN ranges : ranges[k].membership = m

\* C11: at every gamma strictly inside a returned interval, the interval's
\* membership has a strictly higher quality than the membership of every other
\* returned interval and at least the quality of every candidate; a candidate
\* strictly dominated on the whole of [gamma_0, gamma_f] has no interval.
C11_IntervalsAreDominant ==
    ChampReturned =>
        /\ \A k \in DOMAIN ranges : \A x \in SamplesInside(ranges[k]) :
              /\ \A l \in DOMAIN ranges :
                    l # k => QualityAt(ranges[k].membership, x)
                                > QualityAt(ranges[l].membership, x)
              /\ \A i \in DOMAIN all_parts :
                    QualityAt(ranges[k].membership, x) >= QualityAt(all_parts[i], x)
        /\ \A i \in DOMAIN all_parts :
              StrictlyDominated(all_parts[i]) => ~HasInterval(all_parts[i])
\* CHAMP_2D has returned two or more intervals, each with points strictly
\* inside, and dropped a strictly dominated candidate
C11_Witness ==
    /\ ChampReturned /\ Len(ranges) >= 2
    /\ \A k \in DOMAIN ranges : SamplesInside(ranges[k]) # {}
    /\ \E i \in DOMAIN all_parts : StrictlyDominated(all_parts[i])

\* C12: whenever CHAMP_2D returns, the list is sorted by non-decreasing start,
\* every entry has start <= end, every membership is one of the candidates
\* and appears in one entry at most; and a call with gamma_0 < gamma_f and a
\* candidate of positive quality at gamma_0 returns, whether or not every
\* candidate has an interval.
C12_SortedEntriesOfCandidates ==
    /\ ChampReturned =>
        /\ \A k \in 1..(Len(ranges) - 1) : FracLeq(ranges[k].start, ranges[k + 1].start)
        /\ \A k \in DOMAIN ranges : FracLeq(ranges[k].start, ranges[k].end)
        /\ \A k \in DOMAIN ranges : \E i \in DOMAIN all_parts : ranges[k].membership = all_parts[i]
        /\ \A k, l \in DOMAIN ranges : ranges[k].membership = ranges[l].membership => k = l
    /\ (fn = "CHAMP_2D" /\ pc = "done" /\ gamma_0 < gamma_f /\ TopPositive) => ChampReturned
\* CHAMP_2D has returned two or more intervals and none for some candidate
C12_Witness ==
    /\ ChampReturned /\ Len(ranges) >= 2
    /\ \E i \in DOMAIN all_parts : ~HasInterval(all_parts[i])

\* ---- get_interior_point -------------------------------------------------------
\* A halfspace row is its normal followed by its offset; a point is strictly
\* inside when normal . x + offset < 0.  The lists have SampleCap interior rows
\* or more, so that choice() leaves some out: every interior row is the wide
\* row sum(x) >= c except the first, the last or both, which may be the narrow
\* row sum(x) >= 3.  The boundary rows are the last 2 (2D) or the last 6 (3D).
SampleCap == 50
Dim(single) == IF single THEN 2 ELSE 3
NumBoundaries(single) == IF single THEN 2 ELSE 6
InteriorRow(dim, c) == [k \in 1..(dim + 1) |-> IF k <= dim THEN 0 - 1 ELSE c]
\* x_k <= 3
UpperRow(dim, axis) == [k \in 1..(dim + 1) |-> IF k = axis THEN 1 ELSE IF k <= dim THEN 0 ELSE 0 - 3]
\* x_k >= 0
LowerRow(dim, axis) == [k \in 1..(dim + 1) |-> IF k = axis THEN 0 - 1 ELSE 0]
BoundaryRows(single) ==
    IF single THEN <<UpperRow(2, 2), UpperRow(2, 1)>>
    ELSE <<UpperRow(3, 1), UpperRow(3, 2), UpperRow(3, 3),
           LowerRow(3, 1), LowerRow(3, 2), LowerRow(3, 3)>>
WideOffsets == {1, 2}
HalfspaceLists ==
    {[single |-> single,
      rows |-> [i \in 1..n |->
                    InteriorRow(Dim(single),
                                IF \/ (i = 1 /\ "first" \in narrow)
                                   \/ (i = n /\ "last" \in narrow)
                                THEN 3 ELSE c)]
                    \o BoundaryRows(single)] :
        single \in BOOLEAN, n \in SampleCap..MaxInterior, c \in WideOffsets,
        narrow \in SUBSET {"first", "last"}}

RECURSIVE Dot(_, _, _)
Dot(row, x, k) == IF k = 0 THEN 0 ELSE row[k] * x[k] + Dot(row, x, k - 1)
\* normal . x + offset
Margin(row, x) == Dot(row, x, Len(x)) + row[Len(row)]
Min2(a, b) == IF a < b THEN a ELSE b
\* the subsets of S with k elements
RECURSIVE KSubsets(_, _)
KSubsets(S, k) ==
    IF k = 0 THEN {{}}
    ELSE UNION {{T \cup {x} : T \in KSubsets({y \in S : y < x}, k - 1)} : x \in S}
\* choice(n, sample_len, replace=False): sample_len different indices of 1..n
Choices(n, sample_len) == {(1..n) \ T : T \in KSubsets(1..n, n - sample_len)}

NumInterior == Len(halfspaces) - NumBoundaries(singlelayer)
BoundaryIds == (NumInterior + 1)..Len(halfspaces)
\* the points linprog may report with status 0: non-negative (its default
\* bounds) and within the sampled rows, at a distance r >= 0 from each
LinprogPoints ==
    {x \in {[k \in 1..Dim(singlelayer) |-> v] : v \in 0..2} :
        \A i \in sampled \cup BoundaryIds : Margin(halfspaces[i], x) <= 0}
\* 0 success, 1 iteration limit, 2 infeasible, 3 unbounded, 4 numerical difficulties
LinprogStatuses == 0..4
LinprogResults ==
    {[status |-> 0, x |-> x] : x \in LinprogPoints}
    \cup {[status |-> st, x |-> <<>>] : st \in LinprogStatuses \ {0}}
StatusMessages ==
    [st \in 1..3 |->
        CASE st = 1 -> "Interior point calculation: scipy.optimize.linprog exceeded iteration limit"
          [] st = 2 -> "Interior point calculation: scipy.optimize.linprog problem is infeasible"
          [] st = 3 -> "Interior point calculation: scipy.optimize.linprog problem is unbounded"]
\* the rows the final assertion tests the point against
InteriorToSampled(x) == \A i \in sampled \cup BoundaryIds : Margin(halfspaces[i], x) < 0
InteriorToAll(x) == \A i \in DOMAIN halfspaces : Margin(halfspaces[i], x) < 0

\* lines 50-61
SampleHalfspaces ==
    /\ fn = "get_interior_point" /\ pc = "start"
    /\ sampled' \in Choices(NumInterior, Min2(SampleCap, NumInterior))
    /\ pc' = "sampled"
    /\ UNCHANGED <<fn, halfspaces, singlelayer, res, lp_calls, intpt, outcome, outside_interior>>

\* lines 64-70
SolveLP ==
    /\ fn = "get_interior_point" /\ pc = "sampled"
    /\ res' \in LinprogResults
    /\ lp_calls' = lp_calls + 1
    /\ pc' = "solved"
    /\ UNCHANGED <<fn, halfspaces, singlelayer, sampled, intpt, outcome, outside_interior>>

\* lines 72-80
CheckPoint ==
    /\ fn = "get_interior_point" /\ pc = "solved"
    /\ pc' = "done"
    /\ IF res.status # 0
       THEN /\ outcome' = IF res.status \in DOMAIN StatusMessages
                          THEN Raised("AssertionError", StatusMessages[res.status], <<>>)
                          ELSE Raised("KeyError", "", <<res.status>>)
            /\ intpt' = intpt
       ELSE IF InteriorToAll(res.x)
            THEN outcome' = Returned(None, None, NoPart) /\ intpt' = res.x
            ELSE outcome' = Raised("AssertionError", "", <<>>) /\ intpt' = intpt
    /\ UNCHANGED <<fn, halfspaces, singlelayer, sampled, res, lp_calls, outside_interior>>

InitInterior ==
    /\ fn = "get_interior_point" /\ pc = "start"
    /\ \E hl \in HalfspaceLists : halfspaces = hl.rows /\ singlelayer = hl.single
    /\ sampled = {} /\ res = NoRes /\ lp_calls = 0 /\ intpt = <<>>
    /\ outcome = NoOutcome
    /\ NoChamp /\ NoEstimator /\ NoChamp3D /\ NoCoefs /\ NoWeights /\ NoParallel /\ NoCanon /\ NoRuns

NextInterior == SampleHalfspaces \/ SolveLP \/ CheckPoint

SpecInterior == InitInterior /\ [][NextInterior]_vars

\* ---- properties of get_interior_point ------------------------------------------
InteriorDone == fn = "get_interior_point" /\ pc = "done"
Unsampled == (1..NumInterior) \ sampled

\* C13: get_interior_point returns only a point strictly inside every halfspace
\* passed in; it draws at most SampleCap interior rows and keeps every boundary
\* row; and a point linprog found that is not strictly inside some halfspace,
\* sampled or not, ends the call with an AssertionError.
C13_ReturnedPointInsideAll ==
    /\ (fn = "get_interior_point" /\ pc # "start") =>
            /\ Cardinality(sampled) <= SampleCap
            /\ sampled \subseteq 1..NumInterior
    /\ (InteriorDone /\ outcome.kind = "returned") =>
            \A i \in DOMAIN halfspaces : Margin(halfspaces[i], intpt) < 0
    /\ (InteriorDone /\ res.status = 0
            /\ \E i \in DOMAIN halfspaces : Margin(halfspaces[i], res.x) >= 0) =>
            outcome.kind = "raised" /\ outcome.type = "AssertionError"
\* linprog succeeded on the sampled rows with a point that an unsampled row
\* excludes, and the call has ended
C13_Witness ==
    /\ InteriorDone /\ res.status = 0 /\ InteriorToSampled(res.x)
    /\ \E i \in Unsampled : Margin(halfspaces[i], res.x) >= 0

\* C14: linprog is called once per call, and every status other than success
\* ends the call with an AssertionError whose message names the status.
C14_EveryFailureNamed ==
    InteriorDone =>
        /\ lp_calls = 1
        /\ res.status # 0 =>
              /\ outcome.kind = "raised" /\ outcome.type = "AssertionError"
              /\ res.status \in DOMAIN StatusMessages
              /\ outcome.msg = StatusMessages[res.status]

\* ---- CHAMP_3D -------------------------------------------------------------------
\* get_intersection is the champ package's routine.  It is given the
\* coefficient array and max_pt only, and either fails or returns, for some of
\* the candidates, a polygon of vertices (gamma, omega, Q); its polygons
\* tessellate the rectangle between the origin and max_pt.  The model lets it
\* return the whole rectangle for one candidate or the rectangle cut in two, at
\* a whole gamma or a whole omega, for two candidates.
Attempts == 9
SubdivideMsg ==
    "CHAMP failed, perhaps break your input partitions into smaller subsets and then combine with CHAMP?"
\* the corners of gamma in [g1, g2], omega in [w1, w2], in order around it
Rectangle(g1, g2, w1, w2) == << <<g1, w1, 0>>, <<g2, w1, 0>>, <<g2, w2, 0>>, <<g1, w2, 0>> >>
\* a dict part_idx -> polygon, as a set of entries
Intersections3D(num_partitions, max_omega, max_gamma) ==
    IF max_gamma <= 0 \/ max_omega <= 0 THEN {}
    ELSE {{[part_idx |-> i, polyverts |-> Rectangle(0, max_gamma, 0, max_omega)]} :
                i \in 1..num_partitions}
         \cup {{[part_idx |-> ij[1], polyverts |-> Rectangle(0, c, 0, max_omega)],
                [part_idx |-> ij[2], polyverts |-> Rectangle(c, max_gamma, 0, max_omega)]} :
                ij \in {x \in (1..num_partitions) \X (1..num_partitions) : x[1] < x[2]},
                c \in 1..(max_gamma - 1)}
         \cup {{[part_idx |-> ij[1], polyverts |-> Rectangle(0, max_gamma, 0, c)],
                [part_idx |-> ij[2], polyverts |-> Rectangle(0, max_gamma, c, max_omega)]} :
                ij \in {x \in (1..num_partitions) \X (1..num_partitions) : x[1] < x[2]},
                c \in 1..(max_omega - 1)}
OmegaBounds == 0..MaxOmegaF
\* the candidate lists of each length: the first memberships in their order
CandidatePrefixes ==
    {s \in CandidateLists :
        s # <<>> /\ \A m \in Memberships :
                        (\E i \in DOMAIN s : LexLess(m, s[i])) => \E j \in DOMAIN s : s[j] = m}
\* the loop goes on while attempts are left and none has succeeded
MayAttemptAfterSuccess(log) == Len(log) < Attempts
MayAttempt(log) == Len(log) < Attempts /\ \A i \in DOMAIN log : log[i] = "failed"
\* [x[:2] for x in polyverts]
FirstTwo(polyverts) == [k \in DOMAIN polyverts |-> SubSeq(polyverts[k], 1, 2)]
\* line 147, the entries taken in the order of their keys
RECURSIVE DomainsOf(_, _)
DomainsOf(entries, partitions) ==
    IF entries = {} THEN <<>>
    ELSE LET e == CHOOSE a \in entries : \A b \in entries : a.part_idx <= b.part_idx
         IN  <<[polygon |-> FirstTwo(e.polyverts), membership |-> partitions[e.part_idx]]>>
                \o DomainsOf(entries \ {e}, partitions)

\* one pass of the loop of lines 135-140
Champ3DAttempt ==
    /\ fn = "CHAMP_3D" /\ pc = "loop"
    /\ MayAttempt(attempt_log)
    /\ \/ /\ attempt_log' = Append(attempt_log, "failed")
          /\ UNCHANGED champ_domains
       \/ /\ champ_domains' \in Intersections3D(Len(all_parts), omega_f, gamma_f)
          /\ attempt_log' = Append(attempt_log, "ok")
    /\ UNCHANGED <<fn, pc, all_parts, gamma_0, gamma_f, omega_0, omega_f, domains, outcome,
                   outside_champ3d>>

\* lines 141-145
Champ3DGiveUp ==
    /\ fn = "CHAMP_3D" /\ pc = "loop"
    /\ Len(attempt_log) = Attempts /\ \A i \in DOMAIN attempt_log : attempt_log[i] = "failed"
    /\ outcome' = Raised("AssertionError", SubdivideMsg, <<>>)
    /\ pc' = "done"
    /\ UNCHANGED <<fn, all_parts, gamma_0, gamma_f, omega_0, omega_f, attempt_log,
                   champ_domains, domains, outside_champ3d>>

\* the break of line 138 and lines 147-148
Champ3DReturn ==
    /\ fn = "CHAMP_3D" /\ pc = "loop"
    /\ attempt_log # <<>> /\ attempt_log[Len(attempt_log)] = "ok"
    /\ domains' = DomainsOf(champ_domains, all_parts)
    /\ outcome' = Returned(None, None, NoPart)
    /\ pc' = "done"
    /\ UNCHANGED <<fn, all_parts, gamma_0, gamma_f, omega_0, omega_f, attempt_log,
                   champ_domains, outside_champ3d>>

InitChamp3D ==
    /\ fn = "CHAMP_3D" /\ pc = "loop"
    /\ all_parts \in CandidatePrefixes
    /\ gamma_0 \in GammaBounds /\ gamma_f \in GammaBounds
    /\ omega_0 \in OmegaBounds /\ omega_f \in OmegaBounds
    /\ gamma_0 <= gamma_f /\ omega_0 <= omega_f
    /\ attempt_log = <<>> /\ champ_domains = {} /\ domains = <<>>
    /\ outcome = NoOutcome
    /\ G = NoGraph /\ ranges = <<>>
    /\ NoEstimator /\ NoInterior /\ NoCoefs /\ NoWeights /\ NoParallel /\ NoCanon /\ NoRuns

NextChamp3D == Champ3DAttempt \/ Champ3DGiveUp \/ Champ3DReturn

SpecChamp3D == InitChamp3D /\ [][NextChamp3D]_vars

\* ---- properties of CHAMP_3D -------------------------------------------------------
Champ3DDone == fn = "CHAMP_3D" /\ pc = "done"
Champ3DReturned == Champ3DDone /\ outcome.kind = "returned"

\* C15: CHAMP_3D calls get_intersection at most Attempts times and never again
\* after a call that succeeded; it returns the domains of the successful call;
\* and after Attempts failed calls it raises an error with the message about
\* smaller subsets and returns no domains.
C15_BoundedAttempts ==
    fn = "CHAMP_3D" =>
        /\ Len(attempt_log) <= Attempts
        /\ \A i \in 1..(Len(attempt_log) - 1) : attempt_log[i] = "failed"
        /\ Champ3DReturned =>
              /\ attempt_log[Len(attempt_log)] = "ok"
              /\ domains = DomainsOf(champ_domains, all_parts)
        /\ (Champ3DDone /\ ~Champ3DReturned) =>
              /\ Len(attempt_log) = Attempts
              /\ \A i \in DOMAIN attempt_log : attempt_log[i] = "failed"
              /\ outcome.kind = "raised" /\ outcome.msg = SubdivideMsg
              /\ domains = <<>>
\* CHAMP_3D has returned the domains of an attempt that followed failed ones
C15_Witness == Champ3DReturned /\ Len(attempt_log) >= 3 /\ Len(domains) = 2

InRectangle(v) ==
    /\ gamma_0 <= v[1] /\ v[1] <= gamma_f
    /\ omega_0 <= v[2] /\ v[2] <= omega_f
\* C16: every polygon vertex CHAMP_3D returns lies in the rectangle
\* gamma_0 <= gamma <= gamma_f, omega_0 <= omega <= omega_f, and the corners
\* (gamma_0, omega_0) and (gamma_f, omega_f) of the rectangle are vertices of
\* returned polygons.
C16_PolygonsWithinRectangle ==
    Champ3DReturned =>
        /\ \A k \in DOMAIN domains : \A j \in DOMAIN domains[k].polygon :
              InRectangle(domains[k].polygon[j])
        /\ \E k \in DOMAIN domains : \E j \in DOMAIN domains[k].polygon :
              domains[k].polygon[j] = <<gamma_0, omega_0>>
        /\ \E k \in DOMAIN domains : \E j \in DOMAIN domains[k].polygon :
              domains[k].polygon[j] = <<gamma_f, omega_f>>

\* ---- partition_coefficients_2D as a call --------------------------------------------
\* A_hats as whole numbers, P_hats as fractions in lowest terms
Coefficients2D ==
    /\ fn = "partition_coefficients_2D" /\ pc = "start"
    /\ coefs' = [A |-> [i \in DOMAIN all_parts |-> partition_coefficients_2D(G, all_parts)[i].A],
                 P |-> [i \in DOMAIN all_parts |->
                            Frac(partition_coefficients_2D(G, all_parts)[i].P, PDen(G))]]
    /\ outcome' = Returned(None, None, NoPart)
    /\ pc' = "done"
    /\ UNCHANGED <<fn, G, all_parts, G_intralayer, G_interlayer, layer_vec, outside_coefficients>>

InitCoefficients2D ==
    /\ fn = "partition_coefficients_2D" /\ pc = "start"
    /\ G \in ChampGraphs
    /\ all_parts \in CandidateLists
    /\ gamma_0 = 0 /\ gamma_f = 0 /\ ranges = <<>>
    /\ coefs = <<>> /\ outcome = NoOutcome
    /\ NoEstimator /\ NoInterior /\ NoChamp3D /\ NoWeights /\ NoParallel /\ NoCanon /\ NoRuns

NextCoefficients2D == Coefficients2D

SpecCoefficients2D == InitCoefficients2D /\ [][NextCoefficients2D]_vars

\* ---- properties of partition_coefficients_2D ------------------------------------------
Coefficients2DDone == fn = "partition_coefficients_2D" /\ pc = "done"
\* sum over communities c of (sum of degree(v) for v in c)^2, as the sum of
\* degree(u) * degree(v) over the ordered pairs u, v of one community
SquaredStrengths(g, m) ==
    LET same == {uv \in Pairs(g.n) : m[uv[1] + 1] = m[uv[2] + 1]}
    IN  SetSum(same, [uv \in same |-> all_degrees(g)[uv[1]] * all_degrees(g)[uv[2]]])
\* the number of edges with both ends in one community
EdgesWithin(g, m) == Cardinality({e \in g.es : m[e[1] + 1] = m[e[2] + 1]})
AIsEdgesWithin ==
    \A i \in DOMAIN all_parts :
        coefs.A[i] = (IF is_directed(G) THEN 1 ELSE 2) * EdgesWithin(G, all_parts[i])

\* C18 as stated: P is the squared community strengths over 2m for an
\* undirected graph and over m for a directed one; A is the number of edges
\* within communities, doubled only for an undirected graph.
C18_DirectedDividesByM ==
    Coefficients2DDone =>
        /\ AIsEdgesWithin
        /\ \A i \in DOMAIN all_parts :
              coefs.P[i] = Frac(SquaredStrengths(G, all_parts[i]),
                                IF is_directed(G) THEN ecount(G) ELSE 2 * ecount(G))
\* C18 amended: P is the squared community strengths over 2m for an
\* undirected graph and over 4m for a directed one; A is the number of edges
\* within communities, doubled only for an undirected graph.
C18_DirectedDividesBy4M ==
    Coefficients2DDone =>
        /\ AIsEdgesWithin
        /\ \A i \in DOMAIN all_parts :
              coefs.P[i] = Frac(SquaredStrengths(G, all_parts[i]),
                                IF is_directed(G) THEN 4 * ecount(G) ELSE 2 * ecount(G))
\* the coefficients of two or more memberships of a directed graph have been
\* computed, one of them with an edge across communities
C18_Witness ==
    /\ Coefficients2DDone /\ is_directed(G) /\ Len(all_parts) >= 2
    /\ \E i \in DOMAIN all_parts : EdgesWithin(G, all_parts[i]) < ecount(G)

\* ---- partition_coefficients_3D ------------------------------------------------------
\* The graphs have two layers of two vertices, layer_vec = (0, 0, 1, 1) as a
\* numpy array; every layer has an intralayer edge; intralayer edges join the
\* two vertices of a layer and interlayer edges a vertex and its copy in the
\* other layer.  An undirected graph lists every edge once, source < target.
\* One membership is passed per call.
TwoLayers == <<0, 0, 1, 1>>
LayerIds == {TwoLayers[i] : i \in DOMAIN TwoLayers}
IntraEdgeSets(directed) ==
    {E \in SUBSET {e \in DPairs(Len(TwoLayers)) :
                        /\ At(TwoLayers, e[1]) = At(TwoLayers, e[2])
                        /\ directed \/ e[1] < e[2]} :
        \A l \in LayerIds : \E e \in E : At(TwoLayers, e[1]) = l}
InterEdgeSets(directed) ==
    SUBSET {e \in DPairs(Len(TwoLayers)) :
                /\ At(TwoLayers, e[1]) # At(TwoLayers, e[2])
                /\ e[1] - e[2] \in {2, 0 - 2}
                /\ directed \/ e[1] < e[2]}
MembershipsOf(n) ==
    {m \in [1..n -> 0..(n - 1)] :
        \A i \in DOMAIN m : m[i] <= Cardinality({m[j] : j \in 1..(i - 1)})}

FracAdd(a, b) == Frac(a[1] * b[2] + b[1] * a[2], a[2] * b[2])
RECURSIVE FracSum(_, _)
FracSum(S, f) == IF S = {} THEN Whole(0)
                 ELSE LET x == CHOOSE y \in S : TRUE IN FracAdd(f[x], FracSum(S \ {x}, f))

\* vertices of community c in layer l
CommunityInLayer(m, lv, c, l) == {v \in 0..(Len(m) - 1) : m[v + 1] = c /\ At(lv, v) = l}
CommunityLayers(m, lv) == {m[i] : i \in DOMAIN m} \X {lv[i] : i \in DOMAIN lv}
OutStrength(g, vs) == Cardinality({e \in g.es : e[1] \in vs})
InStrength(g, vs) == Cardinality({e \in g.es : e[2] \in vs})
\* number of intralayer edges of layer l
LayerEdges(g, lv, l) == Cardinality({e \in g.es : At(lv, e[1]) = l})

\* The optimizer's qualities, by its contract: the intralayer partition's
\* quality is the sum over ordered pairs i, j of one community of
\* A_ij - gamma * P_ij with the configuration null model of each layer,
\* P_ij = k_i k_j / (2 m_layer) undirected and k_i^out k_j^in / m_layer directed;
\* the interlayer partition's quality at omega = 0 is the sum of C_ij.
QualityIntraAtZero(g, m) == (IF is_directed(g) THEN 1 ELSE 2) * EdgesWithin(g, m)
QualityIntraNullTerm(g, lv, m) ==
    LET cl == CommunityLayers(m, lv)
    IN  FracSum(cl,
            [x \in cl |->
                LET vs == CommunityInLayer(m, lv, x[1], x[2])
                    ml == LayerEdges(g, lv, x[2])
                IN  IF ml = 0 THEN Whole(0)
                    ELSE IF is_directed(g)
                         THEN Frac(OutStrength(g, vs) * InStrength(g, vs), ml)
                         ELSE Frac((OutStrength(g, vs) + InStrength(g, vs))
                                      * (OutStrength(g, vs) + InStrength(g, vs)), 2 * ml)])
QualityInterAtZero(g, m) == (IF is_directed(g) THEN 1 ELSE 2) * EdgesWithin(g, m)

\* lines 231-261: P_hat of one membership
P_hat_3D(gi, ge, lv, m) ==
    IF is_directed(gi) /\ is_directed(ge)
    THEN \* lines 238-248: the optimizer's own quality difference, layer by layer
         QualityIntraNullTerm(gi, lv, m)
    ELSE \* lines 250-260
         LET degree == all_degrees(gi)
             cl == CommunityLayers(m, lv)
         IN  FracSum(cl,
                [x \in cl |->
                    LET layer_strength == SetSum(CommunityInLayer(m, lv, x[1], x[2]), degree)
                    IN  Frac(layer_strength * layer_strength, 2 * LayerEdges(gi, lv, x[2]))])
partition_coefficients_3D(gi, ge, lv, partitions) ==
    [A |-> [i \in DOMAIN partitions |->
                (IF is_directed(gi) THEN 1 ELSE 2) * EdgesWithin(gi, partitions[i])],
     P |-> [i \in DOMAIN partitions |-> P_hat_3D(gi, ge, lv, partitions[i])],
     C |-> [i \in DOMAIN partitions |->
                (IF is_directed(ge) THEN 1 ELSE 2) * EdgesWithin(ge, partitions[i])]]

Coefficients3D ==
    /\ fn = "partition_coefficients_3D" /\ pc = "start"
    /\ coefs' = partition_coefficients_3D(G_intralayer, G_interlayer, layer_vec, all_parts)
    /\ outcome' = Returned(None, None, NoPart)
    /\ pc' = "done"
    /\ UNCHANGED <<fn, G, all_parts, G_intralayer, G_interlayer, layer_vec, outside_coefficients>>

InitCoefficients3D ==
    /\ fn = "partition_coefficients_3D" /\ pc = "start"
    /\ \E d \in BOOLEAN : \E es \in IntraEdgeSets(d) :
            G_intralayer = Graph(Len(TwoLayers), es, d)
    /\ \E d \in BOOLEAN : \E es \in InterEdgeSets(d) :
            G_interlayer = Graph(Len(TwoLayers), es, d)
    /\ layer_vec = TwoLayers
    /\ all_parts \in {<<m>> : m \in MembershipsOf(Len(TwoLayers))}
    /\ coefs = <<>> /\ outcome = NoOutcome
    /\ model = "" /\ method = "" /\ max_iter = 0 /\ verbose = FALSE
    /\ gamma = None /\ omega = None /\ last_gamma = None /\ last_omega = None
    /\ part = NoPart /\ p = None /\ iteration = 0 /\ calls = 0 /\ checked = 0
    /\ stopped = "" /\ printed = <<>>
    /\ G = NoGraph /\ gamma_0 = 0 /\ gamma_f = 0 /\ ranges = <<>>
    /\ NoInterior /\ NoChamp3D /\ NoWeights /\ NoParallel /\ NoCanon /\ NoRuns

NextCoefficients3D == Coefficients3D

SpecCoefficients3D == InitCoefficients3D /\ [][NextCoefficients3D]_vars

\* ---- properties of partition_coefficients_3D ------------------------------------------
Coefficients3DDone == fn = "partition_coefficients_3D" /\ pc = "done"

\* C17: for every membership, A is the optimizer's intralayer quality at
\* gamma = 0, P is that quality minus the intralayer quality at gamma = 1, and
\* C is the optimizer's interlayer quality at omega = 0, whichever of the two
\* graphs are directed.
C17_CoefficientsAreQualities ==
    Coefficients3DDone =>
        \A i \in DOMAIN all_parts :
            /\ coefs.A[i] = QualityIntraAtZero(G_intralayer, all_parts[i])
            /\ coefs.P[i] = QualityIntraNullTerm(G_intralayer, layer_vec, all_parts[i])
            /\ coefs.C[i] = QualityInterAtZero(G_interlayer, all_parts[i])

\* ---- multilayer_louvain, called directly --------------------------------------------
\* The graphs may come with a 'weight' attribute or without one.
EdgeAttributes == {<<>>, <<1>>, <<2>>}
\* lines 25-34: unit weights for an intralayer graph that has none, omega as
\* the weight of every interlayer edge, then the optimizer's membership
multilayer_louvain ==
    /\ fn = "multilayer_louvain" /\ pc = "start"
    /\ weights' = [weights EXCEPT !.G_intralayer = WithWeight(@),
                                  !.G_interlayer = <<omega>>]
    /\ calls' = calls + 1
    /\ part' = Part(calls + 1, gamma, omega)
    /\ outcome' = Returned(None, None, part')
    /\ pc' = "done"
    /\ UNCHANGED <<outside_estimator, inputs, gamma, omega, last_gamma, last_omega, p,
                   iteration, checked, stopped, printed>>

InitLouvain ==
    /\ fn = "multilayer_louvain"
    /\ method = ""
    /\ G_intralayer \in IntraGraphs
    /\ G_interlayer \in InterGraphs
    /\ layer_vec \in LayerVecs
    /\ model = ""
    /\ gamma \in GammaValues /\ omega \in OmegaValues
    /\ pc = "start"
    /\ max_iter = 0 /\ verbose = FALSE
    /\ last_gamma = None /\ last_omega = None /\ part = NoPart /\ p = None
    /\ iteration = 0 /\ calls = 0 /\ checked = 0
    /\ stopped = "" /\ printed = <<>> /\ outcome = NoOutcome
    /\ \E wi \in EdgeAttributes, we \in EdgeAttributes :
            weights = [Unweighted EXCEPT !.G_intralayer = wi, !.G_interlayer = we]
    /\ NoChamp /\ NoInterior /\ NoChamp3D /\ NoCoefs /\ NoParallel /\ NoCanon /\ NoRuns

NextLouvain == multilayer_louvain

SpecLouvain == InitLouvain /\ [][NextLouvain]_vars

\* ---- properties of the calls' effects on their graphs -----------------------------------
\* C19: no step of the monolayer estimator, the multilayer estimator or
\* multilayer_louvain changes a graph it was passed: its vertices, its edges
\* and its edge attributes, 'weight' included, stay as the caller gave them.
C19_GraphsReadOnly ==
    [][/\ weights' = weights
       /\ G_intralayer' = G_intralayer
       /\ G_interlayer' = G_interlayer]_vars

\* ---- repeated_parallel_louvain_from_gammas and ..._from_gammas_omegas -------------------
\* chunk_size = len(points) // 99
ChunkDivisor == 99
\* gammas and omegas are lists of sample positions; the monolayer function
\* has no omegas
SampleLists(k) == {[i \in 1..n |-> i] : n \in 0..k}
\* line 98: [(gamma, omega) for gamma in gammas for omega in omegas]
resolution_parameter_points(gs, ws) ==
    [i \in 1..(Len(gs) * Len(ws)) |->
        <<gs[((i - 1) \div Len(ws)) + 1], ws[((i - 1) % Len(ws)) + 1]>>]
\* the points of the call, one worker invocation each
Points == IF fn = "repeated_parallel_louvain_from_gammas"
          THEN [i \in DOMAIN gammas |-> <<gammas[i]>>]
          ELSE resolution_parameter_points(gammas, omegas)
\* len(gammas), or len(resolution_parameter_points)
NumPoints == IF fn = "repeated_parallel_louvain_from_gammas"
             THEN Len(gammas)
             ELSE Len(gammas) * Len(omegas)
chunk_size(n) == n \div ChunkDivisor
\* lines 66-70: how many chunks chunk_params holds
NumChunks(n) == IF chunk_size(n) > 0
                THEN (n + chunk_size(n) - 1) \div chunk_size(n)
                ELSE 1
\* positions of the points of chunk k (from 0) in a list that also hands the
\* last point of a chunk to the next chunk
ChunkOverlapping(n, k) ==
    IF chunk_size(n) > 0
    THEN (k * chunk_size(n))..Min2((k + 1) * chunk_size(n), n)
    ELSE 1..n
\* positions of the points of chunk k (from 0): points[i:i + chunk_size] with
\* i = k * chunk_size, or the whole list where chunk_size is 0
Chunk(n, k) ==
    IF chunk_size(n) > 0
    THEN (k * chunk_size(n) + 1)..Min2((k + 1) * chunk_size(n), n)
    ELSE 1..n

\* what a worker may return: memberships as the optimizer labels them
WorkerMemberships == {<<0, 1, 0>>, <<1, 0, 1>>, <<2, 2, 0>>}
\* a relabelling by the rank of the label's value, as np.unique orders them
sorted_tuple_by_value(t) ==
    [i \in DOMAIN t |-> Cardinality({t[k] : k \in {j \in DOMAIN t : t[j] < t[i]}})]
\* lines 8-13: every label is replaced by the rank of its first occurrence
sorted_tuple(t) ==
    [i \in DOMAIN t |->
        LET first == CHOOSE j \in DOMAIN t : t[j] = t[i] /\ \A k \in 1..(j - 1) : t[k] # t[i]
        IN  Cardinality({t[k] : k \in 1..(first - 1)})]

\* line 74 or 115: pool = Pool(processes=cpu_count())
OpenPool ==
    /\ fn \in {"repeated_parallel_louvain_from_gammas",
               "repeated_parallel_louvain_from_gammas_omegas"}
    /\ pc = "loop" /\ chunks_done < NumChunks(NumPoints)
    /\ pools_created' = pools_created + 1
    /\ open_pools' = open_pools + 1
    /\ pc' = "starmap"
    /\ UNCHANGED <<fn, outcome, gammas, omegas, chunks_done, submitted, produced, total,
                   outside_parallel>>

\* lines 75-77 or 116-118: the chunk's points go to the workers, what they
\* return enters total in canonical form, and pool.close()
Starmap ==
    /\ pc = "starmap"
    /\ \E chunk \in {Chunk(NumPoints, chunks_done)} :
        /\ submitted' = [i \in DOMAIN submitted |->
                            IF i \in chunk THEN submitted[i] + 1 ELSE submitted[i]]
        /\ \E returned \in SUBSET WorkerMemberships :
            /\ Cardinality(returned) <= Cardinality(chunk)
            /\ chunk # {} => returned # {}
            /\ produced' = produced \cup returned
            /\ total' = total \cup {sorted_tuple(t) : t \in returned}
    /\ open_pools' = open_pools - 1
    /\ chunks_done' = chunks_done + 1
    /\ pc' = "loop"
    /\ UNCHANGED <<fn, outcome, gammas, omegas, pools_created,
                   outside_parallel>>

\* line 85 or 126: return total
ParallelReturn ==
    /\ fn \in {"repeated_parallel_louvain_from_gammas",
               "repeated_parallel_louvain_from_gammas_omegas"}
    /\ pc = "loop" /\ ~(chunks_done < NumChunks(NumPoints))
    /\ outcome' = Returned(None, None, NoPart)
    /\ pc' = "done"
    /\ UNCHANGED <<fn, parallel, outside_parallel>>

InitParallel ==
    /\ \/ /\ fn = "repeated_parallel_louvain_from_gammas"
          /\ gammas \in SampleLists(MaxPoints)
          /\ omegas = <<>>
       \/ /\ fn = "repeated_parallel_louvain_from_gammas_omegas"
          /\ gammas \in SampleLists(MaxPoints)
          /\ omegas \in SampleLists(MaxOmegaPoints)
          /\ Len(gammas) * Len(omegas) <= MaxPoints
    /\ pc = "loop" /\ outcome = NoOutcome
    /\ chunks_done = 0 /\ open_pools = 0 /\ pools_created = 0
    /\ submitted = [i \in 1..NumPoints |-> 0]
    /\ produced = {} /\ total = {}
    /\ NoEstimator /\ NoChamp /\ NoInterior /\ NoChamp3D /\ NoCoefs /\ NoWeights /\ NoCanon /\ NoRuns

NextParallel ==
    \/ OpenPool
    \/ Starmap
    \/ ParallelReturn

SpecParallel == InitParallel /\ [][NextParallel]_vars

\* ---- properties of the parallel louvain functions ----------------------------------------
ParallelDone ==
    /\ fn \in {"repeated_parallel_louvain_from_gammas",
               "repeated_parallel_louvain_from_gammas_omegas"}
    /\ pc = "done"

Tuples == UNION {[1..n -> 0..MaxLabel] : n \in 0..MaxTupleLen}

SortedTuple ==
    /\ fn = "sorted_tuple" /\ pc = "start"
    /\ t_sorted' = sorted_tuple(t_given)
    /\ outcome' = Returned(None, None, NoPart)
    /\ pc' = "done"
    /\ UNCHANGED <<fn, t_given, outside_canon>>

InitSortedTuple ==
    /\ fn = "sorted_tuple" /\ pc = "start"
    /\ t_given \in Tuples
    /\ t_sorted = <<>> /\ outcome = NoOutcome
    /\ NoEstimator /\ NoChamp /\ NoInterior /\ NoChamp3D /\ NoCoefs /\ NoWeights /\ NoParallel /\ NoRuns

NextSortedTuple == SortedTuple

SpecSortedTuple == InitSortedTuple /\ [][NextSortedTuple]_vars

\* ---- properties of sorted_tuple ------------------------------------------------------------
SortedTupleDone == fn = "sorted_tuple" /\ pc = "done"
\* two memberships put the same vertices together
SamePartition(a, b) ==
    /\ Len(a) = Len(b)
    /\ \A i \in DOMAIN a : \A j \in DOMAIN a : (a[i] = a[j]) <=> (b[i] = b[j])
\* every label is at most the number of labels seen before it: the labels are
\* 0..K-1 and a new label is always the next unused number
FirstOccurrenceOrder(s) ==
    \A i \in DOMAIN s : s[i] >= 0 /\ s[i] <= Cardinality({s[j] : j \in 1..(i - 1)})

\* C21: the tuple sorted_tuple returns puts the same vertices together as its
\* argument, numbers the labels 0..K-1 in order of first occurrence, is
\* returned unchanged when passed again, and is the result for every other
\* labelling of the same partition.
C21_CanonicalRelabelling ==
    SortedTupleDone =>
        /\ SamePartition(t_given, t_sorted)
        /\ FirstOccurrenceOrder(t_sorted)
        /\ sorted_tuple(t_sorted) = t_sorted
        /\ \A u \in Tuples : SamePartition(u, t_given) => sorted_tuple(u) = t_sorted
\* a membership whose first label is not 0 and whose labels were renumbered
\* against their order of value
C21_Witness ==
    /\ SortedTupleDone
    /\ Len(t_given) >= 3
    /\ t_given[1] > t_given[2] /\ t_given[3] = t_given[1]
    /\ t_sorted = <<0, 1, 0>>

\* ---- optimal_parts_to_ranges ------------------------------------------------------------------
\* A sample is (gamma, Q, membership); Q is not read by the function.
RunMemberships == {<<0, 0>>, <<0, 1>>}
OptimalSamples == {<<g, 0, m>> : g \in 0..MaxRunGamma, m \in RunMemberships}
OptimalPartLists == UNION {[1..n -> OptimalSamples] : n \in 0..MaxOptimalParts}
\* a test that runs on to the end of the list whatever the memberships are
ContinuesPastChange(parts, i, pt) == i + 1 < Len(parts)
\* line 161: i + 1 < len(optimal_parts) and optimal_parts[i + 1][2] == part
Continues(parts, i, pt) == i + 1 < Len(parts) /\ parts[i + 2][3] = pt

\* lines 158-160: the sample at i opens a run
RangesOpen ==
    /\ fn = "optimal_parts_to_ranges" /\ pc = "loop"
    /\ i_pos < Len(optimal_parts)
    /\ current' = optimal_parts[i_pos + 1]
    /\ gamma_end' = optimal_parts[i_pos + 1][1]
    /\ pc' = "extend"
    /\ UNCHANGED <<fn, outcome, optimal_parts, i_pos, ranges, outside_runs>>

\* lines 161-163: the next sample has the run's membership and extends it
RangesExtend ==
    /\ fn = "optimal_parts_to_ranges" /\ pc = "extend"
    /\ Continues(optimal_parts, i_pos, current[3])
    /\ gamma_end' = optimal_parts[i_pos + 2][1]
    /\ i_pos' = i_pos + 1
    /\ UNCHANGED <<fn, pc, outcome, optimal_parts, current, ranges, outside_runs>>

\* lines 164-166: the run is over and is appended
RangesAppend ==
    /\ fn = "optimal_parts_to_ranges" /\ pc = "extend"
    /\ ~Continues(optimal_parts, i_pos, current[3])
    /\ ranges' = Append(ranges, <<current[1], gamma_end, current[3]>>)
    /\ i_pos' = i_pos + 1
    /\ pc' = "loop"
    /\ UNCHANGED <<fn, outcome, optimal_parts, current, gamma_end, outside_runs>>

\* line 168: return ranges
RangesReturn ==
    /\ fn = "optimal_parts_to_ranges" /\ pc = "loop"
    /\ ~(i_pos < Len(optimal_parts))
    /\ outcome' = Returned(None, None, NoPart)
    /\ pc' = "done"
    /\ UNCHANGED <<fn, optimal_parts, i_pos, current, gamma_end, ranges, outside_runs>>

InitRanges ==
    /\ fn = "optimal_parts_to_ranges" /\ pc = "loop"
    /\ optimal_parts \in OptimalPartLists
    /\ i_pos = 0 /\ current = <<>> /\ gamma_end = None
    /\ ranges = <<>> /\ outcome = NoOutcome
    /\ G = NoGraph /\ all_parts = <<>> /\ gamma_0 = 0 /\ gamma_f = 0
    /\ NoEstimator /\ NoInterior /\ NoChamp3D /\ NoCoefs /\ NoWeights /\ NoParallel /\ NoCanon

NextRanges ==
    \/ RangesOpen
    \/ RangesExtend
    \/ RangesAppend
    \/ RangesReturn

\* the function is sequential code: a step that can be taken is taken
SpecRanges == InitRanges /\ [][NextRanges]_vars /\ WF_vars(NextRanges)

\* ---- properties of optimal_parts_to_ranges --------------------------------------------------------
RangesDone == fn = "optimal_parts_to_ranges" /\ pc = "done"
\* positions where a run of equal memberships starts
RunStarts(parts) == {k \in DOMAIN parts : k = 1 \/ parts[k][3] # parts[k - 1][3]}
\* the last position of the run that starts at k
RunEnd(parts, k) ==
    LET later == {j \in RunStarts(parts) : j > k}
    IN  IF later = {} THEN Len(parts)
        ELSE (CHOOSE j \in later : \A l \in later : j <= l) - 1
\* the r-th run start
NthStart(parts, r) ==
    CHOOSE k \in RunStarts(parts) : Cardinality({j \in RunStarts(parts) : j <= k}) = r
MaximalRuns ==
    /\ Len(ranges) = Cardinality(RunStarts(optimal_parts))
    /\ \A r \in DOMAIN ranges :
        LET k == NthStart(optimal_parts, r)
        IN  ranges[r] = <<optimal_parts[k][1],
                          optimal_parts[RunEnd(optimal_parts, k)][1],
                          optimal_parts[k][3]>>
    /\ \A r \in 1..(Len(ranges) - 1) : ranges[r][3] # ranges[r + 1][3]

\* C22: the function always returns, and what it returns is one range per
\* maximal run of consecutive samples with equal membership, in input order,
\* from the gamma of the run's first sample to the gamma of its last, with no
\* two adjacent ranges of the same membership.
C22_TerminatesWithMaximalRuns ==
    /\ [](RangesDone => MaximalRuns)
    /\ <>RangesDone
\* a run of several samples, with different first and last gammas, followed by
\* a run of one sample
C22_Witness ==
    /\ RangesDone
    /\ Len(optimal_parts) >= 3
    /\ Len(ranges) = 2
    /\ ranges[1][1] # ranges[1][2]
    /\ ranges[2][1] = ranges[2][2]

\* ---- properties of the rules' scope ---------------------------------------------------------
\* lines 85-96: the rules that are written without a model
IndependentRules == 1..6
\* lines 97-110: the model each of the other rules is written for
ModelOfRule ==
    [k \in RuleIds \ IndependentRules |->
        IF k <= 9 THEN "temporal" ELSE IF k <= 11 THEN "multilevel" ELSE "multiplex"]
Reported(k) ==
    /\ outcome.msg = "Input graph is malformed"
    /\ \E j \in DOMAIN outcome.msgs : outcome.msgs[j] = messages[k]

\* C23: when the consistency check has run, a rule written for one model is
\* reported only if that model was declared, and a violated rule that is
\* written without a model makes the call fail, under every model, with its
\* message in the malformed-input report.
C23_ModelRulesOnlyForTheirModel ==
    (Multi /\ checked = 1) =>
        /\ \A k \in DOMAIN ModelOfRule : Reported(k) => ModelOfRule[k] = model
        /\ \A k \in IndependentRules :
                ~RuleHolds[k] =>
                    /\ outcome.kind = "raised"
                    /\ calls = 0
                    /\ outcome.msg = "Input graph is malformed" => Reported(k)
\* a temporal graph is rejected for a temporal rule and a rule without a
\* model, while its interlayer edge count also falls short of what the
\* multiplex rule asks for, which is not reported
C23_Witness ==
    /\ Multi /\ checked = 1 /\ model = "temporal"
    /\ Reported(7) /\ Reported(2)
    /\ ecount(G_interlayer)
            # (vcount(G_intralayer) \div LayerCount(layer_vec))
                * LayerCount(layer_vec) * (LayerCount(layer_vec) - 1)
    /\ ~Reported(13)

\* ---- properties of what the estimators return -----------------------------------------------
ReturnedAfterIteration ==
    /\ Mono \/ Multi
    /\ pc = "done" /\ outcome.kind = "returned" /\ iteration >= 1
\* what every step of a loop does to the call count and the parameters: a call
\* of the optimizer that does not end in an error comes with one update, whose
\* old values are the ones the optimizer was called with, and the parameters
\* change in no other step
OneUpdatePerCall ==
    /\ calls' # calls =>
            /\ calls' = calls + 1 /\ iteration' = iteration + 1
            /\ outcome'.kind # "raised" =>
                    /\ last_gamma' = gamma /\ last_omega' = omega
                    /\ part' = Part(calls', gamma, omega)
    /\ (gamma' # gamma \/ omega' # omega) => calls' = calls + 1

\* C24 as stated: the returned partition is the optimizer's output for the
\* values of the step before the returned ones, the returned gamma (and omega)
\* is not a value the optimizer was called with (here: the call that produced
\* the returned partition), and there are as many optimizer calls as updates.
C24_ReturnedValuesNeverOptimised ==
    ReturnedAfterIteration =>
        /\ outcome.part = part
        /\ part.gamma = last_gamma /\ part.omega = last_omega
        /\ outcome.args[1] # part.gamma
        /\ Multi => outcome.args[2] # part.omega
        /\ calls = iteration

\* C24, amended: the returned partition is the optimizer's last output, found
\* at the values of the step before the returned ones; the returned gamma (and
\* omega) is the update computed from that partition, after which the
\* optimizer is not called again; every optimizer call that does not raise
\* comes with exactly one update.
C24_ReturnedPartitionOneStepBehind ==
    /\ [](ReturnedAfterIteration =>
            /\ outcome.part = part /\ part.call = calls
            /\ part.gamma = last_gamma /\ part.omega = last_omega
            /\ outcome.args = <<gamma, omega>>
            /\ calls = iteration)
    /\ [][OneUpdatePerCall]_vars
\* a run of two iterations that did not converge returns a gamma that differs
\* from the one its partition was found at
C24_Witness ==
    /\ ReturnedAfterIteration
    /\ calls = 2 /\ stopped = "exhausted"
    /\ outcome.args[1] # outcome.part.gamma

\* ---- partition_coefficients_3D on a graph with one layer ----------------------------------------
\* every vertex is in layer 0, so there is no interlayer edge
OneLayer == [v \in 1..Cardinality(ChampVertices) |-> 0]
InitCoefficientsOneLayer ==
    /\ fn = "partition_coefficients_3D" /\ pc = "start"
    /\ G_intralayer \in ChampGraphs
    /\ \E d \in BOOLEAN : G_interlayer = Graph(Cardinality(ChampVertices), {}, d)
    /\ layer_vec = OneLayer
    /\ all_parts \in {<<m>> : m \in Memberships}
    /\ coefs = <<>> /\ outcome = NoOutcome
    /\ model = "" /\ method = "" /\ max_iter = 0 /\ verbose = FALSE
    /\ gamma = None /\ omega = None /\ last_gamma = None /\ last_omega = None
    /\ part = NoPart /\ p = None /\ iteration = 0 /\ calls = 0 /\ checked = 0
    /\ stopped = "" /\ printed = <<>>
    /\ G = NoGraph /\ gamma_0 = 0 /\ gamma_f = 0 /\ ranges = <<>>
    /\ NoInterior /\ NoChamp3D /\ NoWeights /\ NoParallel /\ NoCanon /\ NoRuns

SpecCoefficientsOneLayer == InitCoefficientsOneLayer /\ [][NextCoefficients3D]_vars

\* C25: on a graph with a single layer, partition_coefficients_3D returns the
\* A and the P that partition_coefficients_2D returns for the intralayer
\* graph, whether the two graphs are directed or not.
C25_OneLayerAgreesWith2D ==
    (Coefficients3DDone /\ layer_vec = OneLayer) =>
        \A i \in DOMAIN all_parts :
            LET flat == partition_coefficients_2D(G_intralayer, all_parts)[i]
            IN  /\ coefs.A[i] = flat.A
                /\ coefs.P[i] = Frac(flat.P, PDen(G_intralayer))

====
